---- MODULE Spec2Model ----
(***************************************************************************)
(* A model of sensirion_i2c_driver: the I2cConnection of connection.py     *)
(* driving either the MicroPythonI2cTransceiver of                          *)
(* micropython_i2c_transceiver.py or a scripted API-V1 transceiver (single  *)
(* or multi channel) that reports the raw outcomes it was built with.       *)
(*                                                                          *)
(* Python's None is the empty set and a present value x is {x}, so that an  *)
(* optional value is always a set and can be compared with any other.       *)
(***************************************************************************)
EXTENDS Integers, Sequences, FiniteSets

VARIABLES transceiver, flag, lastStep, last

vars == <<transceiver, flag, lastStep, last>>

None == {}
Some(x) == {x}
Get(o) == CHOOSE x \in o : TRUE

(***************************************************************************)
(* Bounds of the model.                                                    *)
(***************************************************************************)
MaxChannels == 2
MaxRxLen == 2

(***************************************************************************)
(* Status codes of the V1 transceiver API.                                 *)
(***************************************************************************)
STATUS_OK == 0
STATUS_CHANNEL_DISABLED == 1
STATUS_NACK == 2
STATUS_TIMEOUT == 3
STATUS_UNSPECIFIED_ERROR == 4
\* a status outside the documented five, which a transceiver may still report
StatusUnknown == STATUS_UNSPECIFIED_ERROR + 1

Statuses == {STATUS_OK, STATUS_CHANNEL_DISABLED, STATUS_NACK, STATUS_TIMEOUT,
             STATUS_UNSPECIFIED_ERROR, StatusUnknown}

\* the only key of api_methods_dict
SupportedApiVersions == {1}
ApiVersions == {0, 1, 2}

(***************************************************************************)
(* Inputs: addresses, byte strings, underlying errors, commands.           *)
(***************************************************************************)
Addresses == {68, 89}
FillBytes == {7}
Payload(n, b) == [i \in 1..n |-> b]
RxPayloads == {Payload(n, b) : n \in 0..MaxRxLen, b \in FillBytes}

OSError(errno) == [errno |-> errno]
Errors == {OSError(5)}

\* str(error) of Python, for None and for an OSError
StrOf(error) ==
    IF error = None THEN "None"
    ELSE "[Errno " \o (IF Get(error).errno = 5 THEN "5] EIO" ELSE "?]")

\* The commands the caller passes: outgoing payload, declared response
\* length, read delay, timeout, and the decode operation they carry.
Commands ==
    { [tx_data |-> Some(<<1, 2>>), rx_length |-> None, read_delay |-> 0,
       timeout |-> 0, decoder |-> "raw"],
      [tx_data |-> Some(<<1, 2>>), rx_length |-> Some(2), read_delay |-> 1,
       timeout |-> 1, decoder |-> "word"],
      [tx_data |-> None, rx_length |-> Some(MaxRxLen), read_delay |-> 2,
       timeout |-> 2, decoder |-> "identity"] }

(***************************************************************************)
(* What flows through the connection: raw bytes, exception objects and     *)
(* decoded values, all of one record shape.                                *)
(***************************************************************************)
Bytes(b) == [cls |-> "bytes", error |-> None, rx_data |-> b, message |-> "",
             val |-> None]
Exc(cls, error, rx_data, message) ==
    [cls |-> cls, error |-> error, rx_data |-> rx_data, message |-> message,
     val |-> None]
Value(v) == [cls |-> "value", error |-> None, rx_data |-> <<>>, message |-> "",
             val |-> v]
IsException(r) == r.cls \notin {"bytes", "value"}

\* command.interpret_response(data): the decode operation of the command,
\* [raised, result]. "raw" is the base command (None for no data, else the
\* bytes as they are), "identity" hands the bytes back even when empty,
\* "word" unpacks exactly two bytes into one integer and fails otherwise.
CommandInterpretResponse(command, data) ==
    CASE command.decoder = "raw" ->
           [raised |-> FALSE,
            result |-> IF Len(data) = 0 THEN Value(None) ELSE Value(Some(data))]
      [] command.decoder = "identity" ->
           [raised |-> FALSE, result |-> Value(Some(data))]
      [] command.decoder = "word" ->
           IF Len(data) = 2
           THEN [raised |-> FALSE,
                 result |-> Value(Some(<<data[1] * 256 + data[2]>>))]
           ELSE [raised |-> TRUE,
                 result |-> Exc("DecodeError", None, data, "unpack")]

(***************************************************************************)
(* The transceivers.                                                       *)
(***************************************************************************)
Outcome(status, error, rx_data) ==
    [status |-> status, error |-> error, rx_data |-> rx_data]

\* the raw outcomes a scripted transceiver reports for one channel
RawOutcomes ==
    {Outcome(STATUS_OK, None, b) : b \in RxPayloads}
    \cup {Outcome(s, None, <<>>) :
            s \in {STATUS_CHANNEL_DISABLED, STATUS_NACK, STATUS_TIMEOUT,
                   StatusUnknown}}
    \cup {Outcome(STATUS_UNSPECIFIED_ERROR, Some(e), <<>>) : e \in Errors}

BusOp(op, addr, data, n) == [op |-> op, addr |-> addr, data |-> data, n |-> n]

\* MicroPythonI2cTransceiver.transceive: [result, bus], the outcome and the
\* operations issued on the bus, in order. wfail and rfail are the OSError
\* the bus raises on writeto and readfrom (None: it does not), fill the byte
\* the device answers with.
MicroPythonTransceive(p) ==
    LET wr      == p.tx_data # None
        werr    == wr /\ transceiver.wfail # None
        status1 == IF werr THEN STATUS_UNSPECIFIED_ERROR ELSE STATUS_OK
        error1  == IF werr THEN transceiver.wfail ELSE None
        sleep   == p.read_delay > 0
        rd      == p.rx_length # None /\ status1 = STATUS_OK
        rerr    == rd /\ transceiver.rfail # None
        status2 == IF rerr THEN STATUS_UNSPECIFIED_ERROR ELSE status1
        error2  == IF rerr THEN transceiver.rfail ELSE error1
        rx_data == IF rd /\ ~rerr
                   THEN Payload(Get(p.rx_length), transceiver.fill)
                   ELSE <<>>
    IN [result |-> <<Outcome(status2, error2, rx_data)>>,
        bus |-> (IF wr
                 THEN <<BusOp("writeto", Get(transceiver.addr),
                              Get(p.tx_data), 0)>>
                 ELSE <<>>)
                \o (IF sleep THEN <<BusOp("sleep", 0, <<>>, p.read_delay)>>
                    ELSE <<>>)
                \o (IF rd
                    THEN <<BusOp("readfrom", Get(transceiver.addr), <<>>,
                                 Get(p.rx_length))>>
                    ELSE <<>>)]

\* a scripted V1 transceiver: reports the outcomes it was built with
ScriptedTransceive(p) == [result |-> transceiver.outs, bus |-> <<>>]

\* self._transceiver.transceive(...)
TransceiverTransceive(p) ==
    IF transceiver.kind = "micropython" THEN MicroPythonTransceive(p)
    ELSE ScriptedTransceive(p)

MicroPythonTransceivers ==
    { [kind |-> "micropython", API_VERSION |-> 1, channel_count |-> None,
       addr |-> Some(a), outs |-> <<>>, wfail |-> w, rfail |-> r, fill |-> f] :
        a \in Addresses, w \in {None} \cup {Some(e) : e \in Errors},
        r \in {None} \cup {Some(e) : e \in Errors}, f \in FillBytes }

ScriptedTransceivers ==
    { [kind |-> "scripted", API_VERSION |-> 1, channel_count |-> None,
       addr |-> None, outs |-> <<o>>, wfail |-> None, rfail |-> None,
       fill |-> 0] : o \in RawOutcomes }
    \cup UNION { { [kind |-> "scripted", API_VERSION |-> 1,
                    channel_count |-> Some(n), addr |-> None, outs |-> outs,
                    wfail |-> None, rfail |-> None, fill |-> 0] :
                     outs \in [1..n -> RawOutcomes] } : n \in 1..MaxChannels }

\* transceivers of an API version the connection has no adapter for
UnsupportedTransceivers ==
    { [kind |-> "scripted", API_VERSION |-> v, channel_count |-> cc,
       addr |-> None, outs |-> <<Outcome(STATUS_OK, None, <<>>)>>,
       wfail |-> None, rfail |-> None, fill |-> 0] :
        v \in ApiVersions \ SupportedApiVersions,
        cc \in {None} \cup {Some(n) : n \in 1..MaxChannels} }

Transceivers ==
    MicroPythonTransceivers \cup ScriptedTransceivers
    \cup UnsupportedTransceivers

(***************************************************************************)
(* I2cConnection.                                                          *)
(***************************************************************************)
\* _convert_result_v1 without its final else: a status it does not know
\* passes as a success
ConvertResultV1Partial(result) ==
    IF result.status = STATUS_CHANNEL_DISABLED
    THEN Exc("I2cChannelDisabledError", result.error, result.rx_data, "")
    ELSE IF result.status = STATUS_NACK
    THEN Exc("I2cNackError", result.error, result.rx_data, "")
    ELSE IF result.status = STATUS_TIMEOUT
    THEN Exc("I2cTimeoutError", result.error, result.rx_data, "")
    ELSE IF result.status = STATUS_UNSPECIFIED_ERROR
    THEN Exc("I2cTransceiveError", result.error, result.rx_data,
             StrOf(result.error))
    ELSE Bytes(result.rx_data)

\* _convert_result_v1
ConvertResultV1(result) ==
    IF result.status = STATUS_OK THEN Bytes(result.rx_data)
    ELSE IF result.status = STATUS_CHANNEL_DISABLED
    THEN Exc("I2cChannelDisabledError", result.error, result.rx_data, "")
    ELSE IF result.status = STATUS_NACK
    THEN Exc("I2cNackError", result.error, result.rx_data, "")
    ELSE IF result.status = STATUS_TIMEOUT
    THEN Exc("I2cTimeoutError", result.error, result.rx_data, "")
    ELSE Exc("I2cTransceiveError", result.error, result.rx_data,
             StrOf(result.error))

\* _transceive_v1: [raised, params, bus, raw, response]; the response is a
\* list of converted outcomes or one converted outcome.
TransceiveV1(p) ==
    LET t == TransceiverTransceive(p)
    IN [raised |-> FALSE, params |-> Some(p), bus |-> t.bus, raw |-> t.result,
        response |->
            IF transceiver.channel_count # None
            THEN [islist |-> TRUE,
                  items |-> [i \in 1..Len(t.result) |->
                                ConvertResultV1(t.result[i])]]
            ELSE [islist |-> FALSE,
                  items |-> <<ConvertResultV1(t.result[1])>>]]

\* the exception _transceive raises for an API version without an adapter
ConfigFault == Exc("Exception", None, <<>>, "API version not supported")

\* _transceive falling back to the V1 adapter for a version it does not know
TransceiveAnyVersion(p) == TransceiveV1(p)

\* _transceive
Transceive(p) ==
    IF transceiver.API_VERSION \in SupportedApiVersions
    THEN TransceiveV1(p)
    ELSE [raised |-> TRUE, params |-> None, bus |-> <<>>, raw |-> <<>>,
          response |-> [islist |-> FALSE, items |-> <<ConfigFault>>]]

\* _interpret_single_response swallowing a decode failure
InterpretSingleResponseSwallows(command, response) ==
    IF IsException(response) THEN response
    ELSE LET d == CommandInterpretResponse(command, response.rx_data)
         IN IF d.raised THEN Value(None) ELSE d.result

\* _interpret_single_response
InterpretSingleResponse(command, response) ==
    IF IsException(response) THEN response
    ELSE CommandInterpretResponse(command, response.rx_data).result

\* the byte strings _interpret_single_response hands to the decode operation
DecodeCalls(items) ==
    LET RECURSIVE Walk(_)
        Walk(i) ==
            IF i > Len(items) THEN <<>>
            ELSE (IF IsException(items[i]) THEN <<>>
                  ELSE <<items[i].rx_data>>) \o Walk(i + 1)
    IN Walk(1)

\* _interpret_response raising the first exception of a multi-channel list
InterpretResponseRaisesInList(command, response) ==
    LET items == [i \in 1..Len(response.items) |->
                     InterpretSingleResponse(command, response.items[i])]
        bad   == {i \in 1..Len(items) : IsException(items[i])}
    IN IF response.islist /\ bad # {}
       THEN [kind |-> "raise",
             items |-> <<items[CHOOSE i \in bad : \A j \in bad : i <= j]>>]
       ELSE IF response.islist \/ flag = TRUE
       THEN [kind |-> "list", items |-> items]
       ELSE [kind |-> IF IsException(items[1]) THEN "raise" ELSE "value",
             items |-> items]

\* _interpret_response returning the exception instead of raising it
InterpretResponseNoRaise(command, response) ==
    LET items == [i \in 1..Len(response.items) |->
                     InterpretSingleResponse(command, response.items[i])]
    IN IF response.islist \/ flag = TRUE
       THEN [kind |-> "list", items |-> items]
       ELSE [kind |-> "value", items |-> items]

\* _interpret_response without the always_multi_channel_response branch
InterpretResponseIgnoresFlag(command, response) ==
    LET items == [i \in 1..Len(response.items) |->
                     InterpretSingleResponse(command, response.items[i])]
    IN IF response.islist
       THEN [kind |-> "list", items |-> items]
       ELSE [kind |-> IF IsException(items[1]) THEN "raise" ELSE "value",
             items |-> items]

\* _interpret_response: what the call gives its caller
InterpretResponse(command, response) ==
    IF response.islist
    THEN [kind |-> "list",
          items |-> [i \in 1..Len(response.items) |->
                        InterpretSingleResponse(command, response.items[i])]]
    ELSE IF flag = TRUE
    THEN [kind |-> "list",
          items |-> <<InterpretSingleResponse(command, response.items[1])>>]
    ELSE LET r == InterpretSingleResponse(command, response.items[1])
         IN IF IsException(r) THEN [kind |-> "raise", items |-> <<r>>]
            ELSE [kind |-> "value", items |-> <<r>>]

\* the body shared by write, read and execute
Call(op, slave_address, command, tx_data, rx_length, read_delay, timeout) ==
    LET p == [slave_address |-> slave_address, tx_data |-> tx_data,
              rx_length |-> rx_length, read_delay |-> read_delay,
              timeout |-> timeout]
        t == Transceive(p)
    IN [op |-> op, slave_address |-> slave_address, command |-> command,
        flag |-> flag, params |-> t.params, bus |-> t.bus, raw |-> t.raw,
        converted |-> IF t.raised THEN <<>> ELSE t.response.items,
        decoded |-> IF t.raised THEN <<>> ELSE DecodeCalls(t.response.items),
        outcome |-> IF t.raised
                    THEN [kind |-> "raise", items |-> t.response.items]
                    ELSE InterpretResponse(command, t.response)]

Init ==
    /\ transceiver \in Transceivers
    /\ flag = FALSE
    /\ lastStep = "init"
    /\ last = None

\* the setter of always_multi_channel_response
SetAlwaysMultiChannelResponse ==
    /\ \E value \in BOOLEAN : flag' = value
    /\ lastStep' = "set"
    /\ UNCHANGED <<transceiver, last>>

\* write handing the transceiver the command's read length and read delay
WriteWithReadPhase ==
    \E slave_address \in Addresses, command \in Commands :
        /\ last' = Some(Call("write", slave_address, command, command.tx_data,
                             command.rx_length, command.read_delay,
                             command.timeout))
        /\ lastStep' = "call"
        /\ UNCHANGED <<transceiver, flag>>

Write ==
    \E slave_address \in Addresses, command \in Commands :
        /\ last' = Some(Call("write", slave_address, command, command.tx_data,
                             None, 0, command.timeout))
        /\ lastStep' = "call"
        /\ UNCHANGED <<transceiver, flag>>

\* read leaving the connection in multi-channel response mode
ReadSetsFlag ==
    \E slave_address \in Addresses, command \in Commands :
        /\ last' = Some(Call("read", slave_address, command, None,
                             command.rx_length, 0, command.timeout))
        /\ lastStep' = "call"
        /\ flag' = TRUE
        /\ UNCHANGED transceiver

Read ==
    \E slave_address \in Addresses, command \in Commands :
        /\ last' = Some(Call("read", slave_address, command, None,
                             command.rx_length, 0, command.timeout))
        /\ lastStep' = "call"
        /\ UNCHANGED <<transceiver, flag>>

Execute ==
    \E slave_address \in Addresses, command \in Commands :
        /\ last' = Some(Call("execute", slave_address, command,
                             command.tx_data, command.rx_length,
                             command.read_delay, command.timeout))
        /\ lastStep' = "call"
        /\ UNCHANGED <<transceiver, flag>>

Next == Write \/ Read \/ Execute \/ SetAlwaysMultiChannelResponse

Spec == Init /\ [][Next]_vars

(***************************************************************************)
(* The claims. What a claim expects is written here from its own words,    *)
(* apart from the connection's operators above.                            *)
(***************************************************************************)
IsV1 == transceiver.API_VERSION = 1
IsMultiChannel == transceiver.channel_count # None
IsSingleChannel == transceiver.channel_count = None

\* the error a claim names for a status that is not OK
ExpectedError(raw) ==
    CASE raw.status = STATUS_CHANNEL_DISABLED ->
           Exc("I2cChannelDisabledError", raw.error, raw.rx_data, "")
      [] raw.status = STATUS_NACK ->
           Exc("I2cNackError", raw.error, raw.rx_data, "")
      [] raw.status = STATUS_TIMEOUT ->
           Exc("I2cTimeoutError", raw.error, raw.rx_data, "")
      [] OTHER ->
           Exc("I2cTransceiveError", raw.error, raw.rx_data, StrOf(raw.error))

\* the element a claim expects for one channel: the mapped error, else the
\* captured decode error, else the decoded value
ExpectedElement(command, raw) ==
    IF raw.status # STATUS_OK THEN ExpectedError(raw)
    ELSE CommandInterpretResponse(command, raw.rx_data).result

DecodeFails(command, raw) ==
    /\ raw.status = STATUS_OK
    /\ CommandInterpretResponse(command, raw.rx_data).raised

\* C1: with an API-V1 transceiver whose channel_count is not None and which
\* reports N raw outcomes, write/read/execute return (never raise) a list of
\* exactly N elements in channel order, whatever the flag: element i is the
\* error mapped from channel i's status, else the captured decode error, else
\* the decoded value, and depends on channel i's outcome alone.
C1_MultiChannelList ==
    \A c \in last :
        (IsV1 /\ IsMultiChannel) =>
            /\ c.outcome.kind = "list"
            /\ Len(c.outcome.items) = Len(c.raw)
            /\ \A i \in 1..Len(c.raw) :
                   c.outcome.items[i] = ExpectedElement(c.command, c.raw[i])

\* a two-channel call, flag set, whose first channel is not acknowledged,
\* whose second channel decodes, and one whose second channel fails to decode
C1_Witness ==
    \E c \in last :
        /\ IsV1 /\ IsMultiChannel /\ Len(c.raw) = 2
        /\ c.raw[1].status = STATUS_NACK
        /\ c.raw[2].status = STATUS_OK
        /\ c.outcome.kind = "list"
        /\ c.outcome.items[1].cls = "I2cNackError"
        /\ c.outcome.items[2].cls = "value"
        /\ c.outcome.items[2].val # None

\* C2: single-channel transceiver, flag unset: execute raises the error
\* mapped from a status that is not OK (I2cNackError, I2cChannelDisabledError,
\* I2cTimeoutError, I2cTransceiveError), returns nothing and never calls the
\* command's decode operation.
C2_SingleChannelRaises ==
    \A c \in last :
        (/\ IsV1 /\ IsSingleChannel /\ c.flag = FALSE /\ c.op = "execute"
         /\ c.raw[1].status # STATUS_OK) =>
            /\ c.outcome.kind = "raise"
            /\ c.outcome.items = <<ExpectedError(c.raw[1])>>
            /\ c.outcome.items[1].cls =
                 (CASE c.raw[1].status = STATUS_NACK -> "I2cNackError"
                    [] c.raw[1].status = STATUS_CHANNEL_DISABLED ->
                         "I2cChannelDisabledError"
                    [] c.raw[1].status = STATUS_TIMEOUT -> "I2cTimeoutError"
                    [] OTHER -> "I2cTransceiveError")
            /\ c.decoded = <<>>

C2_Witness ==
    \E c \in last :
        /\ IsV1 /\ IsSingleChannel /\ c.flag = FALSE /\ c.op = "execute"
        /\ c.raw[1].status = STATUS_NACK
        /\ c.outcome.kind = "raise"
        /\ c.command.decoder = "word"

\* C3: single-channel transceiver, flag set to True: a call never raises and
\* returns a list of exactly one element, the mapped error (the one raised
\* with the flag unset) on a fault and the decoded value on success.
C3_FlagSetReturnsOneElementList ==
    \A c \in last :
        (IsV1 /\ IsSingleChannel /\ c.flag = TRUE) =>
            /\ c.outcome.kind = "list"
            /\ Len(c.outcome.items) = 1
            /\ c.raw[1].status # STATUS_OK =>
                   c.outcome.items[1] = ExpectedError(c.raw[1])
            /\ (c.raw[1].status = STATUS_OK /\ ~DecodeFails(c.command, c.raw[1]))
                   => /\ c.outcome.items[1].cls = "value"
                      /\ c.outcome.items[1] =
                           CommandInterpretResponse(c.command,
                                                    c.raw[1].rx_data).result

C3_Witness ==
    \E c \in last :
        /\ IsV1 /\ IsSingleChannel /\ c.flag = TRUE /\ c.op = "read"
        /\ c.raw[1].status = STATUS_TIMEOUT
        /\ c.outcome = [kind |-> "list",
                        items |-> <<Exc("I2cTimeoutError", None, <<>>, "")>>]

\* C4: a transceiver of an API version other than 1: write, read and execute
\* raise the configuration fault, whatever the flag and the channel count,
\* before the transceive primitive is invoked, with no partial result.
C4_UnsupportedVersionRaises ==
    \A c \in last :
        transceiver.API_VERSION # 1 =>
            /\ c.outcome.kind = "raise"
            /\ Len(c.outcome.items) = 1
            /\ c.outcome.items[1].cls = "Exception"
            /\ c.params = None
            /\ c.bus = <<>>
            /\ c.decoded = <<>>

C4_Witness ==
    \E c \in last :
        /\ transceiver.API_VERSION = 2 /\ IsMultiChannel
        /\ c.flag = TRUE /\ c.op = "write"
        /\ c.outcome.kind = "raise"

\* C5: a decode failure on an OK outcome follows the mode policy as a
\* transceiver fault does: raised with a single-channel transceiver and the
\* flag unset, returned as that channel's list element otherwise.
C5_DecodeFailurePolicy ==
    \A c \in last :
        IsV1 =>
            \A i \in 1..Len(c.raw) :
                DecodeFails(c.command, c.raw[i]) =>
                    LET e == CommandInterpretResponse(c.command,
                                                      c.raw[i].rx_data).result
                    IN IF IsSingleChannel /\ c.flag = FALSE
                       THEN c.outcome = [kind |-> "raise", items |-> <<e>>]
                       ELSE /\ c.outcome.kind = "list"
                            /\ c.outcome.items[i] = e
                            /\ e.cls = "DecodeError"

\* a decode failure raised, and one returned in a list
C5_Witness ==
    \E c \in last :
        /\ IsV1 /\ IsSingleChannel /\ c.flag = TRUE
        /\ DecodeFails(c.command, c.raw[1])
        /\ c.command.decoder = "word"
        /\ c.outcome.kind = "list"
        /\ c.outcome.items[1].cls = "DecodeError"

\* C6: the status mapping of the V1 adapter is total: OK passes the raw bytes
\* on, CHANNEL_DISABLED, NACK and TIMEOUT give their own error, every other
\* status the generic transceive error with the underlying error and its
\* string form.
C6_StatusMappingTotal ==
    \A c \in last :
        IsV1 =>
            /\ Len(c.converted) = Len(c.raw)
            /\ \A i \in 1..Len(c.raw) :
                   LET r == c.raw[i]
                       x == c.converted[i]
                   IN /\ r.status = STATUS_OK => x = Bytes(r.rx_data)
                      /\ r.status # STATUS_OK =>
                            /\ x.error = r.error
                            /\ x.rx_data = r.rx_data
                            /\ x.val = None
                      /\ r.status = STATUS_CHANNEL_DISABLED =>
                            x.cls = "I2cChannelDisabledError"
                      /\ r.status = STATUS_NACK => x.cls = "I2cNackError"
                      /\ r.status = STATUS_TIMEOUT => x.cls = "I2cTimeoutError"
                      /\ r.status \notin {STATUS_OK, STATUS_CHANNEL_DISABLED,
                                          STATUS_NACK, STATUS_TIMEOUT} =>
                            /\ x.cls = "I2cTransceiveError"
                            /\ x.message = StrOf(r.error)

\* a status outside the documented five, and an unspecified error with its
\* underlying OSError
C6_Witness ==
    \E c \in last :
        /\ IsV1 /\ Len(c.raw) = 2
        /\ c.raw[1].status = StatusUnknown
        /\ c.raw[2].status = STATUS_UNSPECIFIED_ERROR
        /\ c.converted[1].cls = "I2cTransceiveError"
        /\ c.converted[2].message = "[Errno 5] EIO"

\* C7: API-V1 single-channel transceiver, flag unset: write returns None
\* whenever the transceiver reports (OK, None, b""), for every command; in
\* multi-channel mode write returns a list holding None for every channel
\* that succeeded.
C7_WriteReturnsNone ==
    \A c \in last :
        (IsV1 /\ c.op = "write") =>
            /\ (/\ IsSingleChannel /\ c.flag = FALSE
                /\ c.raw = <<Outcome(STATUS_OK, None, <<>>)>>)
                   => c.outcome = [kind |-> "value", items |-> <<Value(None)>>]
            /\ IsMultiChannel =>
                   \A i \in 1..Len(c.raw) :
                       c.raw[i].status = STATUS_OK =>
                           c.outcome.items[i] = Value(None)

\* C8: write passes the command's payload, no read length and zero read
\* delay (no read phase, no delay on the bus); read passes no payload and
\* the command's response length (no write phase); execute passes payload,
\* response length, read delay and timeout unchanged; all three pass the
\* slave address and the command's timeout unchanged.
C8_TransactionParameters ==
    \A c \in last :
        IsV1 =>
            /\ c.params # None
            /\ LET p == Get(c.params)
                   Ops == {c.bus[i].op : i \in 1..Len(c.bus)}
               IN /\ p.slave_address = c.slave_address
                  /\ p.timeout = c.command.timeout
                  /\ c.op = "write" =>
                        /\ p.tx_data = c.command.tx_data
                        /\ p.rx_length = None
                        /\ p.read_delay = 0
                        /\ "readfrom" \notin Ops
                        /\ "sleep" \notin Ops
                  /\ c.op = "read" =>
                        /\ p.tx_data = None
                        /\ p.rx_length = c.command.rx_length
                        /\ "writeto" \notin Ops
                  /\ c.op = "execute" =>
                        /\ p.tx_data = c.command.tx_data
                        /\ p.rx_length = c.command.rx_length
                        /\ p.read_delay = c.command.read_delay

\* a write, on the bus, of a command that declares a response and a delay
C8_Witness ==
    \E c \in last :
        /\ transceiver.kind = "micropython" /\ c.op = "write"
        /\ c.command.rx_length # None /\ c.command.read_delay > 0
        /\ Len(c.bus) = 1 /\ c.bus[1].op = "writeto"

\* C9: no call of write/read/execute changes the connection's state (the
\* flag, the transceiver reference), and a read that follows a read of the
\* same command and address, with the same flag and the same raw outcome,
\* gives the same result.
C9_ReadIdempotent ==
    [][lastStep' = "call" =>
          /\ flag' = flag
          /\ transceiver' = transceiver
          /\ \A a \in last, b \in last' :
                 (/\ a.op = "read" /\ b.op = "read"
                  /\ a.command = b.command
                  /\ a.slave_address = b.slave_address
                  /\ a.flag = b.flag /\ a.raw = b.raw)
                     => b.outcome = a.outcome]_vars

\* a read made with the flag set, the flag still as the call found it
C9_Witness ==
    \E c \in last :
        /\ lastStep = "call" /\ c.op = "read"
        /\ c.flag = TRUE /\ flag = TRUE
        /\ c.outcome.kind = "list"

\* C10: every bus write and bus read MicroPythonI2cTransceiver.transceive
\* issues targets the slave_address argument of the call.
C10_BusTargetsSlaveAddress ==
    \A c \in last :
        \A i \in 1..Len(c.bus) :
            c.bus[i].op \in {"writeto", "readfrom"} =>
                c.bus[i].addr = c.slave_address

====
